---- MODULE Spec2Model ----
(***************************************************************************)
(* Sale transaction of the pharmacy management system: Invoice.create,     *)
(* Invoice.generateInvoiceNumber and Invoice.findById (models/Invoice.js)  *)
(* over the transaction helpers of config/database.js and the tables of    *)
(* database_setup.sql (InnoDB: row locks, unique index on invoice_number,  *)
(* AUTO_INCREMENT keys).  One action per awaited statement of the code.    *)
(* Around it: the validators of POST /sales/invoice (routes/pharmacist.js),*)
(* and the session with its role gates (middleware/auth.js, routes/auth.js *)
(* and the profile and invoice routes).                                    *)
(*   Spec          two concurrent sales with well-formed bodies            *)
(*   SpecNumbering one sale after a day of up to MaxSeq invoices           *)
(*   SpecRoute     one sale request with any body, medicines deactivated   *)
(*   SpecAuth      the requests of one browser session                     *)
(*   SpecReader    one sale and a client reading through the pool          *)
(*   SpecInventory one sale while prices and stock levels are edited       *)
(*   SpecAlerts    the low-stock and expiry alerts of the inventory page   *)
(*   SpecDesk      one browser session selling, pharmacists deactivated    *)
(***************************************************************************)
EXTENDS Integers, Sequences, FiniteSets, TLC

\* ---------------------------------------------------------------- bounds
MaxUnits == 2        \* largest total quantity of one sale's item list
MaxFaults == 1       \* storage errors injected in one run
InitStock == 3       \* quantity_in_stock of every medicine at the start
MaxDay == 2          \* calendar days a run spans
MaxSeq == 1000       \* invoices already issued on the first day

\* ------------------------------------------------------- fixed small sets
Procs == {"r1", "r2"}          \* the sale requests (POST /sales/invoice)
Medicines == {1, 2}            \* ids of the rows of table medicines
Null == [null |-> TRUE]        \* JavaScript null
NoDate == 0                    \* a date that is absent (undefined, SQL NULL)
Threw == [threw |-> TRUE]      \* the call rejected (exception to the caller)

VARIABLES
    invoices,         \* committed rows of table invoices
    invoice_items,    \* committed rows of table invoice_items
    stock_movements,  \* committed rows of table stock_movements
    medicines,        \* committed quantity_in_stock, by medicine id
    autoInc,          \* AUTO_INCREMENT counters of the three tables
    tx,               \* uncommitted writes of each request's connection
    pc,               \* position of each request inside Invoice.create
    items,            \* argument items of the running call
    done,             \* number of items of the loop already processed
    invoiceNumber,    \* local invoiceNumber
    invoiceId,        \* local invoiceId (0: not assigned)
    error,            \* the error the call met ("none": no error)
    result,           \* value returned by Invoice.create
    answered,         \* the requests answered before this one was sent
    body,             \* req.body of the request
    pharmacist,       \* req.session.user.id of the request
    is_active,        \* committed is_active flag, by medicine id
    users,            \* rows of table users, by id
    session,          \* req.session of the user's browser
    response,         \* what the last request was answered with
    connection,       \* each request's pool connection: taken, releases
    catalog,          \* the other columns of table medicines, by id
    reader,           \* a client reading through the pool, and what it saw
    classified,       \* the stock alerts last computed
    faults,           \* storage errors injected so far
    today             \* the calendar date at the last reading of the clock

vars == <<invoices, invoice_items, stock_movements, medicines, autoInc, tx,
          pc, items, done, invoiceNumber, invoiceId, error, result,
          answered, body, pharmacist, is_active, users, session, response,
          connection, catalog, reader, classified, faults, today>>

tables == <<invoices, invoice_items, stock_movements, medicines>>

\* what the route hands to Invoice.create besides the item list
request == <<body, pharmacist>>

\* state that no statement of Invoice.create writes
env == <<is_active, users, session, response, catalog, reader, classified>>

\* what the session routes neither read nor write
inventory == <<catalog, reader, classified>>

\* the state of the calls of Invoice.create
calls == <<autoInc, tx, pc, items, done, invoiceNumber, invoiceId, error,
           result, answered, connection, faults, today>>

\* ------------------------------------------------------------- helpers
RECURSIVE ToDigits(_)
\* String(sequence): the decimal digits of a natural number
ToDigits(n) == IF n < 10 THEN <<n>> ELSE ToDigits(n \div 10) \o <<n % 10>>

RECURSIVE PadStart(_, _)
\* String.prototype.padStart(w, '0')
PadStart(s, w) == IF Len(s) >= w THEN s ELSE PadStart(<<0>> \o s, w)

RECURSIVE ParseInt(_)
\* parseInt of a string of decimal digits
ParseInt(s) ==
    IF Len(s) = 0 THEN 0
    ELSE 10 * ParseInt(SubSeq(s, 1, Len(s) - 1)) + s[Len(s)]

\* prefix = `INV-${year}${month}${day}`
Prefix(day) == <<"INV", day>>

\* `${prefix}-${String(sequence).padStart(3, '0')}`
FormatInvoiceNumber(prefix, sequence) ==
    [prefix |-> prefix, suffix |-> PadStart(ToDigits(sequence), 3)]

\* WHERE invoice_number LIKE 'prefix%' ORDER BY id DESC LIMIT 1
LastInvoice(prefix) ==
    LET rows == {r \in invoices : r.invoice_number.prefix = prefix}
    IN  IF rows = {} THEN Null
        ELSE CHOOSE r \in rows : \A o \in rows : o.id <= r.id

\* catch (error): return `INV-${Date.now()}`
TimeToken(now) == [timestamp |-> now]

\* mutation: isArray() without the min option
IsArrayMin1_AnyLength(json) == json.type = "array"

\* mutation: the parsed sequence is used without the increment
generateInvoiceNumber_NoIncrement(day, ok) ==
    LET prefix == Prefix(day)
        data == LastInvoice(prefix)
        sequence == IF ok /\ data # Null
                    THEN ParseInt(data.invoice_number.suffix)
                    ELSE 1
    IN  FormatInvoiceNumber(prefix, sequence)

\* mutation: the sequence is not advanced past the last invoice
generateInvoiceNumber_First(day, ok) == FormatInvoiceNumber(Prefix(day), 1)

\* Invoice.generateInvoiceNumber on calendar day `day`; ok is
\* result.success of getOne
generateInvoiceNumber(day, ok) ==
    LET prefix == Prefix(day)
        data == LastInvoice(prefix)
        sequence == IF ok /\ data # Null
                    THEN ParseInt(data.invoice_number.suffix) + 1
                    ELSE 1
    IN  FormatInvoiceNumber(prefix, sequence)

\* medicines.selling_price, by medicine id
SellingPrice(m) == m + 1

\* a line item as the sale page builds it
Item(m, q) ==
    [medicine_id |-> m, quantity |-> q, unit_price |-> SellingPrice(m),
     total_price |-> q * SellingPrice(m)]

\* item lists a sale request may carry (req.body.items)
RECURSIVE Units(_)
\* total quantity of an item list
Units(cart) ==
    IF cart = << >> THEN 0 ELSE Head(cart).quantity + Units(Tail(cart))

Carts ==
    {cart \in UNION {[1..n -> {Item(m, q) : m \in Medicines,
                                            q \in 1..MaxUnits}] :
                     n \in 1..MaxUnits} : Units(cart) <= MaxUnits}

RECURSIVE SumPrice(_)
\* sum of total_price over an item list
SumPrice(cart) ==
    IF cart = << >> THEN 0
    ELSE Head(cart).total_price + SumPrice(Tail(cart))

\* a JSON array in a request body
JsonArray(list) == [type |-> "array", value |-> list]

\* a JSON value in a request body that is not an array
NotArray == [type |-> "other", value |-> << >>]

\* the body the sale page sends for a cart
Payload(cart) ==
    [items |-> JsonArray(cart), total_amount |-> SumPrice(cart),
     invoice_date |-> NoDate]

\* no request received yet
NoBody == [items |-> NotArray, total_amount |-> 0, invoice_date |-> NoDate]

\* users.id of the pharmacist whose session sends request p
SessionUser(p) == IF p = "r1" THEN 2 ELSE 3

EmptyTx == [invoices |-> {}, invoice_items |-> {}, stock_movements |-> {},
            medicines |-> << >>]

\* ------------------------------------------------------------ row locks
\* shared locks on medicines rows taken by the foreign-key check of an
\* insert into invoice_items
SLocks(q) == {r.medicine_id : r \in tx[q].invoice_items}

\* exclusive locks on medicines rows taken by UPDATE medicines
XLocks(q) == DOMAIN tx[q].medicines

\* mutation: the loop walks the item list from its end
Cur_Reversed(p) == items[p][Len(items[p]) - done[p]]

\* the item the loop is at
Cur(p) == items[p][done[p] + 1]

\* mutation: UPDATE medicines takes no row lock
WaitsFor_NoRowLock(p) ==
    CASE pc[p] = "header" ->
            {q \in Procs \ {p} :
                \E r \in tx[q].invoices : r.invoice_number = invoiceNumber[p]}
      [] OTHER -> {}

\* the connections the statement at pc[p] has to wait for
WaitsFor(p) ==
    CASE pc[p] = "header" ->
            {q \in Procs \ {p} :
                \E r \in tx[q].invoices : r.invoice_number = invoiceNumber[p]}
      [] pc[p] = "item" ->
            {q \in Procs \ {p} : Cur(p).medicine_id \in XLocks(q)}
      [] pc[p] = "stock" ->
            {q \in Procs \ {p} : Cur(p).medicine_id \in XLocks(q) \cup SLocks(q)}
      [] OTHER -> {}

RECURSIVE WaitClosure(_, _)
WaitClosure(S, n) ==
    IF n = 0 THEN S
    ELSE WaitClosure(S \cup UNION {WaitsFor(q) : q \in S}, n - 1)

\* p waits, directly or not, for itself
InDeadlock(p) ==
    p \in WaitClosure(WaitsFor(p), Cardinality(Procs)) /\ WaitsFor(p) # {}

\* ------------------------------------------------------------ sessions
\* ids of the rows of table users: the seeded administrator and pharmacist
\* and a pharmacist the administrator added
Users == {1, 2, 3}

Passwords == {"pw1", "pw2"}

InitUsers ==
    [u \in Users |->
        [role |-> IF u = 1 THEN "admin" ELSE "pharmacist",
         password |-> "pw1", is_active |-> TRUE]]

\* a session nobody logged in to
NoSession == [user |-> Null, userId |-> 0]

\* what a request is answered with: the router whose handler ran ("auth",
\* "admin", "pharmacist") or "redirect" when a middleware turned it away,
\* the account (users.id) logged in to the session, the invoices rendered,
\* and whether the flash message is 'Access denied'
Response(handler, account, shown, denied) ==
    [handler |-> handler, account |-> account, invoices |-> shown,
     denied |-> denied]

NoResponse ==
    [handler |-> "none", account |-> 0, invoices |-> {}, denied |-> FALSE]

\* a request that asked the pool for nothing yet
NoConnection == [taken |-> FALSE, released |-> 0]

\* connectionLimit of the pool
ConnectionLimit == 10

\* connections handed out by the pool and not given back
InUse == {q \in Procs : connection[q].taken /\ connection[q].released = 0}

\* selling_price, min_stock_level and expiry_date of the medicines at the
\* start
InitCatalog ==
    [m \in Medicines |->
        [selling_price |-> SellingPrice(m), min_stock_level |-> 1,
         expiry_date |-> NoDate]]

\* nothing read yet
NoReader ==
    [at |-> "idle", kind |-> "none", id |-> 0, found |-> FALSE,
     items |-> << >>, ids |-> {}, quantity_in_stock |-> 0]

\* no alert computed yet
NoAlerts ==
    [kind |-> "none", is_low_stock |-> {}, is_expired |-> {},
     lowStockMedicines |-> {}, expiredMedicines |-> {}]

\* ---------------------------------------------------------------- Init
\* no request received, nobody logged in
InitRequests ==
    /\ tx = [p \in Procs |-> EmptyTx]
    /\ pc = [p \in Procs |-> "idle"]
    /\ items = [p \in Procs |-> << >>]
    /\ done = [p \in Procs |-> 0]
    /\ invoiceNumber = [p \in Procs |-> Null]
    /\ invoiceId = [p \in Procs |-> 0]
    /\ error = [p \in Procs |-> "none"]
    /\ result = [p \in Procs |-> Null]
    /\ answered = [p \in Procs |-> {}]
    /\ body = [p \in Procs |-> NoBody]
    /\ pharmacist = [p \in Procs |-> 0]
    /\ is_active = [m \in Medicines |-> TRUE]
    /\ users = InitUsers
    /\ session = NoSession
    /\ response = NoResponse
    /\ connection = [p \in Procs |-> NoConnection]
    /\ catalog = InitCatalog
    /\ reader = NoReader
    /\ classified = NoAlerts
    /\ faults = 0
    /\ today = 1

Init ==
    /\ invoices = {}
    /\ invoice_items = {}
    /\ stock_movements = {}
    /\ medicines = [m \in Medicines |-> InitStock]
    /\ autoInc = [invoices |-> 1, invoice_items |-> 1, stock_movements |-> 1]
    /\ InitRequests

\* ------------------------------------------------------------- actions
\* body("items").isArray({ min: 1 })
IsArrayMin1(json) == json.type = "array" /\ Len(json.value) >= 1

\* body("total_amount").isFloat({ min: 0 })
IsFloatMin0(x) == x >= 0

\* validationResult(req).isEmpty()
Valid(b) == IsArrayMin1(b.items) /\ IsFloatMin0(b.total_amount)

\* POST /sales/invoice with a valid body, sent by the pharmacist with
\* users.id uid, reaches Invoice.create(invoiceData, req.body.items), whose
\* beginTransaction() hands out a connection with an open transaction, or
\* rejects outside the try block of create: in pool.getConnection() (no
\* connection was taken) or in connection.beginTransaction() (the
\* connection was taken and is not given back)
BeginSale(p, b, uid) ==
    /\ pc[p] = "idle"
    /\ Valid(b)
    /\ Cardinality(InUse) < ConnectionLimit
    /\ answered' = [answered EXCEPT
                       ![p] = {q \in Procs : pc[q] = "returned"}]
    /\ body' = [body EXCEPT ![p] = b]
    /\ pharmacist' = [pharmacist EXCEPT ![p] = uid]
    /\ items' = [items EXCEPT ![p] = b.items.value]
    /\ \E got \in BOOLEAN, begun \in BOOLEAN :
          LET ok == got /\ begun
          IN  /\ begun \/ got
              /\ ok \/ faults < MaxFaults
              /\ faults' = IF ok THEN faults ELSE faults + 1
              /\ connection' = [connection EXCEPT ![p].taken = got]
              /\ pc' = [pc EXCEPT
                           ![p] = IF ok THEN "generate" ELSE "returned"]
              /\ result' = [result EXCEPT ![p] = IF ok THEN Null ELSE Threw]
              /\ error' = [error EXCEPT
                              ![p] = IF ok THEN "none" ELSE "ER_CONN"]
    /\ UNCHANGED <<tables, autoInc, tx, done, invoiceNumber, invoiceId,
                   today, env>>

\* POST /sales/invoice with a body the validators refuse: status 400,
\* Invoice.create is not called
RejectSale(p, b) ==
    /\ pc[p] = "idle"
    /\ ~Valid(b)
    /\ body' = [body EXCEPT ![p] = b]
    /\ pc' = [pc EXCEPT ![p] = "rejected"]
    /\ UNCHANGED <<tables, autoInc, tx, items, done, invoiceNumber, invoiceId,
                   error, result, answered, pharmacist, connection, faults,
                   today, env>>

\* Medicine.deactivate(): UPDATE medicines SET is_active = 0 WHERE id = ?
\* on the pool; the update waits for the row locks of open transactions
DeactivateMedicine(m) ==
    /\ is_active[m]
    /\ \A q \in Procs : m \notin XLocks(q) \cup SLocks(q)
    /\ is_active' = [is_active EXCEPT ![m] = FALSE]
    /\ UNCHANGED <<tables, calls, request, users, session, response,
                   inventory>>

\* const invoiceNumber = await Invoice.generateInvoiceNumber();
\* the lookup runs on the pool, outside the transaction: it sees committed
\* rows only; a failed lookup (result.success false) leaves sequence = 1.
\* new Date() reads the server clock, which may have passed midnight since
\* it was last read
GenerateNumber(p) ==
    /\ pc[p] = "generate"
    /\ \E ok \in BOOLEAN, day \in {today, today + 1} :
          /\ day <= MaxDay
          /\ ok \/ faults < MaxFaults
          /\ faults' = IF ok THEN faults ELSE faults + 1
          /\ today' = day
          /\ invoiceNumber' = [invoiceNumber EXCEPT
                                  ![p] = generateInvoiceNumber(day, ok)]
    /\ pc' = [pc EXCEPT ![p] = "header"]
    /\ UNCHANGED <<tables, autoInc, tx, items, done, invoiceId, error,
                   result, answered, connection, request, env>>

\* mutation: the column carries no unique index
DuplicateEntry_NoIndex(number) == FALSE

\* the unique index on invoices.invoice_number, against committed rows
DuplicateEntry(number) == \E r \in invoices : r.invoice_number = number

\* invoiceData.invoice_date || new Date().toISOString().split('T')[0]:
\* the date of the body when it carries one, else the date at a new
\* reading of the clock
InvoiceDate(b, day) == IF b.invoice_date # NoDate THEN b.invoice_date ELSE day

\* connection.execute(invoiceQuery, [...]); invoiceId = insertId.  The
\* insert waits while another open transaction holds the same number, and
\* draws its AUTO_INCREMENT value whether or not the unique index accepts it
InsertHeader(p) ==
    /\ pc[p] = "header"
    /\ WaitsFor(p) = {}
    /\ autoInc' = [autoInc EXCEPT !.invoices = @ + 1]
    /\ \E day \in {today, today + 1} :
          /\ day <= MaxDay
          /\ body[p].invoice_date # NoDate => day = today
          /\ today' = day
          /\ IF DuplicateEntry(invoiceNumber[p])
             THEN /\ error' = [error EXCEPT ![p] = "ER_DUP_ENTRY"]
                  /\ pc' = [pc EXCEPT ![p] = "rollback"]
                  /\ UNCHANGED <<tx, invoiceId>>
             ELSE /\ tx' = [tx EXCEPT ![p].invoices =
                               {[id |-> autoInc.invoices,
                                 invoice_number |-> invoiceNumber[p],
                                 pharmacist_id |-> pharmacist[p],
                                 total_amount |-> body[p].total_amount,
                                 invoice_date |->
                                     InvoiceDate(body[p], day)]}]
                  /\ invoiceId' = [invoiceId EXCEPT
                                      ![p] = autoInc.invoices]
                  /\ pc' = [pc EXCEPT ![p] =
                               IF Len(items[p]) = 0 THEN "commit"
                               ELSE "item"]
                  /\ UNCHANGED error
    /\ UNCHANGED <<tables, items, done, invoiceNumber, result, answered,
                   connection, faults, request, env>>

\* connection.execute(itemQuery, [invoiceId, item.medicine_id, ...]); the
\* foreign key on medicine_id rejects an id with no medicines row
InsertItem(p) ==
    /\ pc[p] = "item"
    /\ WaitsFor(p) = {}
    /\ autoInc' = [autoInc EXCEPT !.invoice_items = @ + 1]
    /\ IF Cur(p).medicine_id \notin Medicines
       THEN /\ error' = [error EXCEPT ![p] = "ER_NO_REFERENCED_ROW"]
            /\ pc' = [pc EXCEPT ![p] = "rollback"]
            /\ UNCHANGED tx
       ELSE /\ tx' = [tx EXCEPT ![p].invoice_items = @ \cup
                         {[id |-> autoInc.invoice_items,
                           invoice_id |-> invoiceId[p],
                           medicine_id |-> Cur(p).medicine_id,
                           quantity |-> Cur(p).quantity,
                           unit_price |-> Cur(p).unit_price,
                           total_price |-> Cur(p).total_price]}]
            /\ pc' = [pc EXCEPT ![p] = "stock"]
            /\ UNCHANGED error
    /\ UNCHANGED <<tables, items, done, invoiceNumber, invoiceId,
                   result, answered, connection, faults, today, request,
                   env>>

\* the row version UPDATE reads under its exclusive lock: the connection's
\* own uncommitted version if it has one, else the committed one
CurrentStock(p, m) ==
    IF m \in DOMAIN tx[p].medicines THEN tx[p].medicines[m] ELSE medicines[m]

\* mutation: read-into-memory-then-write-back from the committed quantity
StockAfter_Snapshot(p, m, q) == medicines[m] - q

\* UPDATE medicines SET quantity_in_stock = quantity_in_stock - ? WHERE id = ?
StockAfter(p, m, q) == CurrentStock(p, m) - q

UpdateStock(p) ==
    /\ pc[p] = "stock"
    /\ WaitsFor(p) = {}
    /\ LET m == Cur(p).medicine_id
           old == tx[p].medicines
       IN  tx' = [tx EXCEPT ![p].medicines =
                     [k \in DOMAIN old \cup {m} |->
                         IF k = m THEN StockAfter(p, m, Cur(p).quantity)
                         ELSE old[k]]]
    /\ pc' = [pc EXCEPT ![p] = "movement"]
    /\ UNCHANGED <<tables, autoInc, items, done, invoiceNumber, invoiceId,
                   error, result, answered, connection, faults, today,
                   request, env>>

\* mutation: one movement row per medicine of the invoice, not per item
InsertMovement_OncePerMedicine(p) ==
    /\ pc[p] = "movement"
    /\ IF \E v \in tx[p].stock_movements :
              v.medicine_id = Cur(p).medicine_id
       THEN UNCHANGED <<tx, autoInc>>
       ELSE /\ tx' = [tx EXCEPT ![p].stock_movements = @ \cup
                         {[id |-> autoInc.stock_movements,
                           medicine_id |-> Cur(p).medicine_id,
                           movement_type |-> "out",
                           quantity |-> Cur(p).quantity,
                           reference_type |-> "sale",
                           reference_id |-> invoiceId[p],
                           created_by |-> pharmacist[p]]}]
            /\ autoInc' = [autoInc EXCEPT !.stock_movements = @ + 1]
    /\ done' = [done EXCEPT ![p] = @ + 1]
    /\ pc' = [pc EXCEPT ![p] =
                 IF done[p] + 1 = Len(items[p]) THEN "commit" ELSE "item"]
    /\ UNCHANGED <<tables, items, invoiceNumber, invoiceId, error, result,
                   answered, connection, faults, today, request, env>>

\* connection.execute(movementQuery, [item.medicine_id, item.quantity,
\* invoiceId, ...]) and the step of the for loop
InsertMovement(p) ==
    /\ pc[p] = "movement"
    /\ tx' = [tx EXCEPT ![p].stock_movements = @ \cup
                 {[id |-> autoInc.stock_movements,
                   medicine_id |-> Cur(p).medicine_id,
                   movement_type |-> "out",
                   quantity |-> Cur(p).quantity,
                   reference_type |-> "sale",
                   reference_id |-> invoiceId[p],
                   created_by |-> pharmacist[p]]}]
    /\ autoInc' = [autoInc EXCEPT !.stock_movements = @ + 1]
    /\ done' = [done EXCEPT ![p] = @ + 1]
    /\ pc' = [pc EXCEPT ![p] =
                 IF done[p] + 1 = Len(items[p]) THEN "commit" ELSE "item"]
    /\ UNCHANGED <<tables, items, invoiceNumber, invoiceId, error, result,
                   answered, connection, faults, today, request, env>>

\* a statement of the transaction (or the commit) rejects: connection loss,
\* lock wait timeout, any storage error; control enters the catch block
StatementFails(p) ==
    /\ pc[p] \in {"header", "item", "stock", "movement", "commit"}
    /\ faults < MaxFaults
    /\ faults' = faults + 1
    /\ error' = [error EXCEPT ![p] = "ER_STORAGE"]
    /\ pc' = [pc EXCEPT ![p] = "rollback"]
    /\ UNCHANGED <<tables, autoInc, tx, items, done, invoiceNumber,
                   invoiceId, result, answered, connection, today, request,
                   env>>

\* InnoDB resolves a lock cycle by failing one of its transactions
DeadlockVictim(p) ==
    /\ InDeadlock(p)
    /\ error' = [error EXCEPT ![p] = "ER_LOCK_DEADLOCK"]
    /\ pc' = [pc EXCEPT ![p] = "rollback"]
    /\ UNCHANGED <<tables, autoInc, tx, items, done, invoiceNumber,
                   invoiceId, result, answered, connection, faults, today,
                   request, env>>

\* the tables after the connection's writes are made durable
CommittedMedicines(p) ==
    [m \in Medicines |->
        IF m \in DOMAIN tx[p].medicines THEN tx[p].medicines[m]
        ELSE medicines[m]]

\* await commitTransaction(connection): connection.commit(), then
\* connection.release()
Commit(p) ==
    /\ pc[p] = "commit"
    /\ connection' = [connection EXCEPT ![p].released = @ + 1]
    /\ invoices' = invoices \cup tx[p].invoices
    /\ invoice_items' = invoice_items \cup tx[p].invoice_items
    /\ stock_movements' = stock_movements \cup tx[p].stock_movements
    /\ medicines' = CommittedMedicines(p)
    /\ tx' = [tx EXCEPT ![p] = EmptyTx]
    /\ pc' = [pc EXCEPT ![p] = "refetch"]
    /\ UNCHANGED <<autoInc, items, done, invoiceNumber, invoiceId, error,
                   result, answered, faults, today, request, env>>

RECURSIVE SortById(_)
\* ORDER BY ii.id ASC
SortById(rows) ==
    IF rows = {} THEN << >>
    ELSE LET r == CHOOSE x \in rows : \A o \in rows : x.id <= o.id
         IN  <<r>> \o SortById(rows \ {r})

\* Invoice.findById(id); okInvoice and okItems are the success flags of
\* the two pool queries
findById(id, okInvoice, okItems) ==
    LET rows == {r \in invoices : r.id = id}
    IN  IF ~okInvoice \/ rows = {} THEN Null
        ELSE LET r == CHOOSE x \in rows : TRUE
             IN  [id |-> r.id, invoice_number |-> r.invoice_number,
                  pharmacist_id |-> r.pharmacist_id,
                  total_amount |-> r.total_amount,
                  invoice_date |-> r.invoice_date,
                  items |-> IF okItems
                            THEN SortById({i \in invoice_items :
                                              i.invoice_id = id})
                            ELSE << >>]

\* return await Invoice.findById(invoiceId); the items query runs only
\* when the invoice query succeeded
Refetch(p) ==
    /\ pc[p] = "refetch"
    /\ \E okInvoice \in BOOLEAN, okItems \in BOOLEAN :
          /\ (okInvoice /\ okItems) \/ faults < MaxFaults
          /\ ~okInvoice => okItems
          /\ faults' = IF okInvoice /\ okItems THEN faults ELSE faults + 1
          /\ result' = [result EXCEPT
                           ![p] = findById(invoiceId[p], okInvoice, okItems)]
    /\ pc' = [pc EXCEPT ![p] = "returned"]
    /\ UNCHANGED <<tables, autoInc, tx, items, done, invoiceNumber,
                   invoiceId, error, answered, connection, today, request,
                   env>>

\* mutation: the statements ran outside the transaction (autocommit), so
\* the rollback undoes nothing
Rollback_KeepsWrites(p) ==
    /\ pc[p] = "rollback"
    /\ \E ok \in BOOLEAN :
          /\ ok \/ faults < MaxFaults
          /\ faults' = IF ok THEN faults ELSE faults + 1
          /\ result' = [result EXCEPT ![p] = IF ok THEN Null ELSE Threw]
          /\ connection' = [connection EXCEPT
                               ![p].released = IF ok THEN @ + 1 ELSE @]
    /\ invoices' = invoices \cup tx[p].invoices
    /\ invoice_items' = invoice_items \cup tx[p].invoice_items
    /\ stock_movements' = stock_movements \cup tx[p].stock_movements
    /\ medicines' = [m \in Medicines |->
                        IF m \in DOMAIN tx[p].medicines
                        THEN tx[p].medicines[m] ELSE medicines[m]]
    /\ tx' = [tx EXCEPT ![p] = EmptyTx]
    /\ pc' = [pc EXCEPT ![p] = "returned"]
    /\ UNCHANGED <<autoInc, items, done, invoiceNumber, invoiceId, error,
                   answered, today, request, env>>

\* catch: await rollbackTransaction(connection); return null, where
\* rollbackTransaction is connection.rollback(), then connection.release().
\* When the rollback itself rejects, release() is not reached and the call
\* throws; the broken connection's transaction is discarded by the server
Rollback(p) ==
    /\ pc[p] = "rollback"
    /\ \E ok \in BOOLEAN :
          /\ ok \/ faults < MaxFaults
          /\ faults' = IF ok THEN faults ELSE faults + 1
          /\ result' = [result EXCEPT ![p] = IF ok THEN Null ELSE Threw]
          /\ connection' = [connection EXCEPT
                               ![p].released = IF ok THEN @ + 1 ELSE @]
    /\ tx' = [tx EXCEPT ![p] = EmptyTx]
    /\ pc' = [pc EXCEPT ![p] = "returned"]
    /\ UNCHANGED <<tables, autoInc, items, done, invoiceNumber, invoiceId,
                   error, answered, today, request, env>>

Next ==
    \/ \E p \in Procs, cart \in Carts :
          BeginSale(p, Payload(cart), SessionUser(p))
    \/ \E p \in Procs : GenerateNumber(p)
    \/ \E p \in Procs : InsertHeader(p)
    \/ \E p \in Procs : InsertItem(p)
    \/ \E p \in Procs : UpdateStock(p)
    \/ \E p \in Procs : InsertMovement(p)
    \/ \E p \in Procs : StatementFails(p)
    \/ \E p \in Procs : DeadlockVictim(p)
    \/ \E p \in Procs : Commit(p)
    \/ \E p \in Procs : Refetch(p)
    \/ \E p \in Procs : Rollback(p)

Spec == Init /\ [][Next]_vars

\* ------------------------------------------- numbering over a long day
\* the tables after n sales of one unit of medicine 1 by pharmacist 2 on
\* the first day, each through Invoice.create
History(n) ==
    [invoices |->
        {[id |-> k, invoice_number |-> FormatInvoiceNumber(Prefix(1), k),
          pharmacist_id |-> 2, total_amount |-> SellingPrice(1),
          invoice_date |-> 1] :
            k \in 1..n},
     invoice_items |->
        {[id |-> k, invoice_id |-> k, medicine_id |-> 1, quantity |-> 1,
          unit_price |-> SellingPrice(1), total_price |-> SellingPrice(1)] :
            k \in 1..n},
     stock_movements |->
        {[id |-> k, medicine_id |-> 1, movement_type |-> "out",
          quantity |-> 1, reference_type |-> "sale", reference_id |-> k,
          created_by |-> 2] : k \in 1..n},
     medicines |-> [m \in Medicines |->
                      IF m = 1 THEN InitStock - n ELSE InitStock]]

\* the lengths of history the numbering is tried on: around every change of
\* the number of digits of the sequence
HistoryLengths == {0, 1, 9, 10, 99, 100, MaxSeq - 1, MaxSeq}

InitNumbering ==
    /\ \E n \in HistoryLengths :
          /\ invoices = History(n).invoices
          /\ invoice_items = History(n).invoice_items
          /\ stock_movements = History(n).stock_movements
          /\ medicines = History(n).medicines
          /\ autoInc = [invoices |-> n + 1, invoice_items |-> n + 1,
                        stock_movements |-> n + 1]
    /\ InitRequests

\* one more sale of one unit of medicine 1
NextNumbering ==
    \/ BeginSale("r1", Payload(<<Item(1, 1)>>), SessionUser("r1"))
    \/ GenerateNumber("r1")
    \/ InsertHeader("r1")
    \/ InsertItem("r1")
    \/ UpdateStock("r1")
    \/ InsertMovement("r1")
    \/ StatementFails("r1")
    \/ Commit("r1")
    \/ Refetch("r1")
    \/ Rollback("r1")

SpecNumbering == InitNumbering /\ [][NextNumbering]_vars

\* ------------------------------------------- the sale route, any body
\* a medicine_id with no row in table medicines
MissingMedicine == 9

\* item lists over existing and missing medicines, and single items with a
\* quantity of zero or less
RouteCarts ==
    {cart \in UNION {[1..n -> {Item(m, q) :
                                  m \in Medicines \cup {MissingMedicine},
                                  q \in 1..MaxUnits}] :
                     n \in 1..MaxUnits} : Units(cart) <= MaxUnits}
        \cup {<<Item(m, q)>> : m \in Medicines, q \in -1..0}

\* request bodies a client may post: items that are no array, an empty
\* array or an item list; a total that is the sum of the item totals,
\* another amount or a negative amount; and a sale of one unit that
\* carries an invoice_date
Bodies ==
    {[Payload(<<Item(1, 1)>>) EXCEPT !.invoice_date = d] : d \in 1..MaxDay}
        \cup {[items |-> NotArray, total_amount |-> 0, invoice_date |-> NoDate]}
        \cup UNION {{[items |-> JsonArray(cart), total_amount |-> t,
                      invoice_date |-> NoDate] :
                        t \in {-1, SumPrice(cart), SumPrice(cart) + 1}} :
                    cart \in RouteCarts \cup {<< >>}}

\* one request with any body, posted after the admin's deactivations
NextRoute ==
    \/ \E b \in Bodies : BeginSale("r1", b, SessionUser("r1"))
    \/ \E b \in Bodies : RejectSale("r1", b)
    \/ \E m \in Medicines : pc["r1"] = "idle" /\ DeactivateMedicine(m)
    \/ GenerateNumber("r1")
    \/ InsertHeader("r1")
    \/ InsertItem("r1")
    \/ UpdateStock("r1")
    \/ InsertMovement("r1")
    \/ StatementFails("r1")
    \/ Commit("r1")
    \/ Refetch("r1")
    \/ Rollback("r1")

SpecRoute == Init /\ [][NextRoute]_vars

\* ------------------------------------------- sessions and role gates
\* requireAdmin
RequireAdmin == session.user # Null /\ session.user.role = "admin"

\* requirePharmacist
RequirePharmacist == session.user # Null /\ session.user.role = "pharmacist"

\* POST /auth/login with the email of account uid and password pw
Login(uid, pw) ==
    /\ IF users[uid].is_active /\ pw = users[uid].password
       THEN /\ session' = [user |-> [id |-> uid, role |-> users[uid].role],
                           userId |-> uid]
            /\ response' = Response("auth", uid, {}, FALSE)
       ELSE /\ response' = Response("redirect", session.userId, {}, FALSE)
            /\ UNCHANGED session
    /\ UNCHANGED <<tables, calls, request, inventory, is_active, users>>

\* GET /auth/logout: req.session.destroy()
Logout ==
    /\ session' = NoSession
    /\ response' = Response("auth", 0, {}, FALSE)
    /\ UNCHANGED <<tables, calls, request, inventory, is_active, users>>

\* the fields of a profile form that are also fields of req.session.user;
\* "absent" and 0 stand for a field the body does not carry (full_name,
\* email and mobile are present and valid)
ProfileBodies ==
    {[role |-> r, id |-> i] :
        r \in {"absent", "admin", "pharmacist"}, i \in {0} \cup Users}

\* { ...req.session.user, ...req.body }
Merge(user, b) ==
    [id |-> IF b.id = 0 THEN user.id ELSE b.id,
     role |-> IF b.role = "absent" THEN user.role ELSE b.role]

\* POST /admin/profile and POST /pharmacist/profile: User.findById finds
\* active accounts only; User.update writes full_name, email, mobile and
\* address only; when it succeeded the body is merged into req.session.user
PostProfile(b) ==
    /\ RequireAdmin \/ RequirePharmacist
    /\ \E ok \in BOOLEAN :
          /\ ok \/ faults < MaxFaults
          /\ faults' = IF ok THEN faults ELSE faults + 1
          /\ session' = IF ok /\ users[session.user.id].is_active
                        THEN [session EXCEPT
                                 !.user = Merge(session.user, b)]
                        ELSE session
    /\ response' = Response(session.user.role, session.userId, {}, FALSE)
    /\ UNCHANGED <<tables, autoInc, tx, pc, items, done, invoiceNumber,
                   invoiceId, error, result, answered, connection, today,
                   request, inventory,
                   is_active, users>>

\* POST /auth/change-password: the row of req.session.user.id gets the new
\* password when the current one is verified; the session is not touched
ChangePassword(current, new) ==
    /\ session.user # Null
    /\ users' = IF /\ current = users[session.user.id].password
                   /\ users[session.user.id].is_active
                THEN [users EXCEPT ![session.user.id].password = new]
                ELSE users
    /\ response' = Response("auth", session.userId, {}, FALSE)
    /\ UNCHANGED <<tables, calls, request, inventory, is_active, session>>

\* GET /admin/invoices: every invoice is rendered
AdminInvoices ==
    /\ RequireAdmin
    /\ response' = Response("admin", session.userId,
                            {r.id : r \in invoices}, FALSE)
    /\ UNCHANGED <<tables, calls, request, inventory, is_active, users, session>>

\* GET /pharmacist/invoices: allInvoices.filter(
\*   (inv) => inv.pharmacist_id === pharmacistId)
PharmacistInvoices ==
    /\ RequirePharmacist
    /\ response' =
          Response("pharmacist", session.userId,
                   {r.id : r \in {x \in invoices :
                                     x.pharmacist_id = session.user.id}},
                   FALSE)
    /\ UNCHANGED <<tables, calls, request, inventory, is_active, users, session>>

\* GET /pharmacist/invoices/:id of an existing invoice
InvoiceDetails(id) ==
    /\ RequirePharmacist
    /\ LET invoice == findById(id, TRUE, TRUE)
       IN  /\ invoice # Null
           /\ response' =
                 IF invoice.pharmacist_id # session.user.id
                 THEN Response("pharmacist", session.userId, {}, TRUE)
                 ELSE Response("pharmacist", session.userId, {id}, FALSE)
    /\ UNCHANGED <<tables, calls, request, inventory, is_active, users, session>>

\* a request under /admin or /pharmacist that requireAdmin or
\* requirePharmacist turns away: res.redirect('/auth/login')
Redirected(area) ==
    /\ \/ area = "admin" /\ ~RequireAdmin
       \/ area = "pharmacist" /\ ~RequirePharmacist
    /\ response' = Response("redirect", session.userId, {}, FALSE)
    /\ UNCHANGED <<tables, calls, request, inventory, is_active, users, session>>

\* the tables hold one sale of pharmacist 2; nobody is logged in
InitAuth ==
    /\ invoices = History(1).invoices
    /\ invoice_items = History(1).invoice_items
    /\ stock_movements = History(1).stock_movements
    /\ medicines = History(1).medicines
    /\ autoInc = [invoices |-> 2, invoice_items |-> 2, stock_movements |-> 2]
    /\ InitRequests

\* the requests of one browser session
NextAuth ==
    \/ \E uid \in Users, pw \in Passwords : Login(uid, pw)
    \/ Logout
    \/ \E b \in ProfileBodies : PostProfile(b)
    \/ \E current \in Passwords, new \in Passwords :
          ChangePassword(current, new)
    \/ AdminInvoices
    \/ PharmacistInvoices
    \/ \E r \in invoices : InvoiceDetails(r.id)
    \/ \E area \in {"admin", "pharmacist"} : Redirected(area)

SpecAuth == InitAuth /\ [][NextAuth]_vars

\* ------------------------------------------- a concurrent pool reader
\* mutation: READ UNCOMMITTED, a pool statement sees the pending writes of
\* the open transactions
Visible_Dirty ==
    [invoices |-> invoices \cup UNION {tx[q].invoices : q \in Procs},
     invoice_items |->
        invoice_items \cup UNION {tx[q].invoice_items : q \in Procs},
     medicines |->
        [m \in Medicines |->
            IF \E q \in Procs : m \in DOMAIN tx[q].medicines
            THEN tx[CHOOSE q \in Procs :
                        m \in DOMAIN tx[q].medicines].medicines[m]
            ELSE medicines[m]]]

\* what one statement of executeQuery or getOne sees: the pool connection
\* runs it in autocommit mode, so it reads committed rows only
Visible ==
    [invoices |-> invoices, invoice_items |-> invoice_items,
     medicines |-> medicines]

\* Invoice.findById(id), first query: SELECT ... FROM invoices WHERE i.id = ?
ReadInvoice(id) ==
    /\ reader.at = "idle"
    /\ LET found == \E r \in Visible.invoices : r.id = id
       IN  reader' = [NoReader EXCEPT
                         !.kind = "invoice", !.id = id, !.found = found,
                         !.at = IF found THEN "items" ELSE "idle"]
    /\ UNCHANGED <<tables, calls, request, is_active, users, session,
                   response, catalog, classified>>

\* Invoice.findById(id), second query: SELECT ... FROM invoice_items
\* WHERE ii.invoice_id = ? ORDER BY ii.id
ReadItems ==
    /\ reader.at = "items"
    /\ reader' = [reader EXCEPT
                     !.at = "idle",
                     !.items = SortById({i \in Visible.invoice_items :
                                            i.invoice_id = reader.id})]
    /\ UNCHANGED <<tables, calls, request, is_active, users, session,
                   response, catalog, classified>>

\* Invoice.getAll(): SELECT i.* FROM invoices i ...
ReadAllInvoices ==
    /\ reader.at = "idle"
    /\ reader' = [NoReader EXCEPT
                     !.kind = "list",
                     !.ids = {r.id : r \in Visible.invoices}]
    /\ UNCHANGED <<tables, calls, request, is_active, users, session,
                   response, catalog, classified>>

\* Medicine.findById(m): SELECT m.* FROM medicines m WHERE m.id = ? AND
\* m.is_active = 1
ReadMedicine(m) ==
    /\ reader.at = "idle"
    /\ is_active[m]
    /\ reader' = [NoReader EXCEPT
                     !.kind = "medicine", !.id = m,
                     !.quantity_in_stock = Visible.medicines[m]]
    /\ UNCHANGED <<tables, calls, request, is_active, users, session,
                   response, catalog, classified>>

\* one sale and a client reading through the pool at any moment
NextReader ==
    \/ \E cart \in Carts :
          BeginSale("r1", Payload(cart), SessionUser("r1"))
    \/ GenerateNumber("r1")
    \/ InsertHeader("r1")
    \/ InsertItem("r1")
    \/ UpdateStock("r1")
    \/ InsertMovement("r1")
    \/ StatementFails("r1")
    \/ Commit("r1")
    \/ Refetch("r1")
    \/ Rollback("r1")
    \/ \E id \in 1..2 : ReadInvoice(id)
    \/ ReadItems
    \/ ReadAllInvoices
    \/ \E m \in Medicines : ReadMedicine(m)

SpecReader == Init /\ [][NextReader]_vars

\* ------------------------------------------- maintenance of medicines
\* selling prices an update may set
Prices == {SellingPrice(m) : m \in Medicines} \cup {1}

\* the updateData of Medicine.update that touch the price or the stock;
\* a field that is not in the record is undefined
UpdateData ==
    [{"selling_price"} -> Prices]
        \cup [{"quantity_in_stock"} -> 0..InitStock]

\* Medicine.update(updateData): UPDATE medicines SET selling_price = ?,
\* quantity_in_stock = ?, min_stock_level = ?, expiry_date = ?, ...
\* WHERE id = ? on the pool, for the fields that are not undefined; the update waits for the row locks of open
\* transactions
MedicineUpdate(m, updateData) ==
    /\ \A q \in Procs : m \notin XLocks(q) \cup SLocks(q)
    /\ catalog' = [catalog EXCEPT
                      ![m] = [f \in DOMAIN @ |->
                                IF f \in DOMAIN updateData
                                THEN updateData[f] ELSE @[f]]]
    /\ medicines' = IF "quantity_in_stock" \in DOMAIN updateData
                    THEN [medicines EXCEPT
                             ![m] = updateData.quantity_in_stock]
                    ELSE medicines
    /\ UNCHANGED <<invoices, invoice_items, stock_movements, calls, request,
                   is_active, users, session, response, reader, classified>>

\* Medicine.updateStock(newQuantity): UPDATE medicines SET
\* quantity_in_stock = ? WHERE id = ? on the pool
MedicineUpdateStock(m, newQuantity) ==
    /\ \A q \in Procs : m \notin XLocks(q) \cup SLocks(q)
    /\ medicines' = [medicines EXCEPT ![m] = newQuantity]
    /\ UNCHANGED <<invoices, invoice_items, stock_movements, calls, request,
                   env>>

\* the line item with the unit price the client lowered by one
Discounted(item) ==
    [item EXCEPT !.unit_price = @ - 1,
                 !.total_price = item.quantity * (item.unit_price - 1)]

\* sales of one unit, at the price of the sale page or at a lowered price
InventoryBodies ==
    {Payload(<<item>>) :
        item \in {Item(m, 1) : m \in Medicines}
                    \cup {Discounted(Item(m, 1)) : m \in Medicines}}

\* one sale while prices and stock levels are maintained
NextInventory ==
    \/ \E b \in InventoryBodies : BeginSale("r1", b, SessionUser("r1"))
    \/ GenerateNumber("r1")
    \/ InsertHeader("r1")
    \/ InsertItem("r1")
    \/ UpdateStock("r1")
    \/ InsertMovement("r1")
    \/ StatementFails("r1")
    \/ Commit("r1")
    \/ Refetch("r1")
    \/ Rollback("r1")
    \/ \E m \in Medicines, updateData \in UpdateData :
          MedicineUpdate(m, updateData)
    \/ \E m \in Medicines, newQuantity \in 0..InitStock :
          MedicineUpdateStock(m, newQuantity)

SpecInventory == Init /\ [][NextInventory]_vars

\* ------------------------------------------------------- stock alerts
\* times of a day: its first instant, and a later one
DayTimes == {0, 1}

\* the instant at time t of calendar day d
Instant(d, t) == [date |-> d, time |-> t]

\* a < b on Date objects
Earlier(a, b) == a.date < b.date \/ (a.date = b.date /\ a.time < b.time)

\* Medicine.prototype.isLowStock
isLowStock(m) == medicines[m] <= catalog[m].min_stock_level

\* Medicine.prototype.isExpired at the instant now: new Date(expiry_date)
\* is the first instant of the expiry date
isExpired(m, now) ==
    IF catalog[m].expiry_date = NoDate THEN FALSE
    ELSE Earlier(Instant(catalog[m].expiry_date, 0), now)

\* Medicine.getLowStock(): WHERE m.is_active = 1 AND
\* m.quantity_in_stock <= m.min_stock_level
getLowStock ==
    {m \in Medicines :
        is_active[m] /\ medicines[m] <= catalog[m].min_stock_level}

\* Medicine.getExpired(): WHERE m.is_active = 1 AND
\* m.expiry_date < CURDATE(); a NULL expiry_date compares as unknown
getExpired(curdate) ==
    {m \in Medicines :
        /\ is_active[m]
        /\ catalog[m].expiry_date # NoDate
        /\ catalog[m].expiry_date < curdate}

\* GET /admin/inventory at time t of the day: the medicines of
\* Medicine.getAll() with their is_low_stock and is_expired flags, and the
\* lists of Medicine.getLowStock() and Medicine.getExpired()
Inventory(t) ==
    /\ \E day \in {today, today + 1} :
          /\ day <= MaxDay
          /\ today' = day
          /\ LET all == {m \in Medicines : is_active[m]}
             IN  classified' =
                    [kind |-> "inventory",
                     is_low_stock |-> {m \in all : isLowStock(m)},
                     is_expired |->
                        {m \in all : isExpired(m, Instant(day, t))},
                     lowStockMedicines |-> getLowStock,
                     expiredMedicines |-> getExpired(day)]
    /\ UNCHANGED <<tables, autoInc, tx, pc, items, done, invoiceNumber,
                   invoiceId, error, result, answered, connection, faults,
                   request, is_active, users, session, response, catalog,
                   reader>>

\* the minimum levels and expiry dates an update may set
AlertData ==
    [{"min_stock_level"} -> 0..(InitStock + 1)]
        \cup [{"expiry_date"} -> {NoDate} \cup 1..(MaxDay + 1)]

\* the inventory page while levels and expiry dates are maintained
NextAlerts ==
    \/ \E m \in Medicines, updateData \in AlertData :
          MedicineUpdate(m, updateData)
    \/ \E m \in Medicines : DeactivateMedicine(m)
    \/ \E t \in DayTimes : Inventory(t)

SpecAlerts == Init /\ [][NextAlerts]_vars

\* ------------------------------------------- sales from a session
\* POST /pharmacist/sales/invoice from the browser session: behind
\* requirePharmacist, invoiceData = { ...req.body, pharmacist_id:
\* req.session.user.id }
PostSale(p, b) ==
    /\ RequirePharmacist
    /\ BeginSale(p, b, session.user.id)

\* the body of a sale of one unit of medicine 1, as the sale page sends
\* it and with a pharmacist_id field added by the client
SaleBodies ==
    {Payload(<<Item(1, 1)>>)}
        \cup {[f \in DOMAIN Payload(<<Item(1, 1)>>) \cup {"pharmacist_id"} |->
                  IF f = "pharmacist_id" THEN u
                  ELSE Payload(<<Item(1, 1)>>)[f]] : u \in Users}

\* POST /admin/pharmacists/:id/deactivate, sent from the administrator's
\* own session: User.findById finds the active pharmacist, deactivate()
\* sets is_active = 0
DeactivatePharmacist(uid) ==
    /\ users[uid].is_active /\ users[uid].role = "pharmacist"
    /\ users' = [users EXCEPT ![uid].is_active = FALSE]
    /\ UNCHANGED <<tables, calls, request, inventory, is_active, session,
                   response>>

\* POST /admin/pharmacists/:id/activate, sent from the administrator's own
\* session: User.findById finds active accounts only, so a deactivated
\* pharmacist is 'not found'; for an active one pharmacist.activate is not
\* a function of User and the handler's catch answers.  No row changes
ActivatePharmacist(uid) ==
    /\ users[uid].role = "pharmacist"
    /\ users' = users
    /\ UNCHANGED <<tables, calls, request, inventory, is_active, session,
                   response>>

\* the requests of one browser session with sales, while the
\* administrator deactivates pharmacists between the sales
NextDesk ==
    \/ \E uid \in Users, pw \in Passwords : Login(uid, pw)
    \/ Logout
    \/ \E b \in ProfileBodies : PostProfile(b)
    \/ \E b \in SaleBodies : PostSale("r1", b)
    \/ GenerateNumber("r1")
    \/ InsertHeader("r1")
    \/ InsertItem("r1")
    \/ UpdateStock("r1")
    \/ InsertMovement("r1")
    \/ StatementFails("r1")
    \/ Commit("r1")
    \/ Refetch("r1")
    \/ Rollback("r1")
    \/ \E uid \in Users : pc["r1"] = "idle" /\ DeactivatePharmacist(uid)
    \/ \E uid \in Users : ActivatePharmacist(uid)

SpecDesk == InitAuth /\ [][NextDesk]_vars

TypeOK ==
    /\ \A m \in Medicines : medicines[m] \in Int
    /\ faults \in 0..MaxFaults
    /\ \A p \in Procs : done[p] \in 0..Len(items[p])

\* ------------------------------------------------- auxiliary operators
RECURSIVE SumQty(_)
\* total quantity of a set of rows
SumQty(rows) ==
    IF rows = {} THEN 0
    ELSE LET r == CHOOSE x \in rows : TRUE
         IN  r.quantity + SumQty(rows \ {r})

\* quantity of medicine m over the items of a cart
CartQty(cart, m) ==
    Units(SelectSeq(cart, LAMBDA it : it.medicine_id = m))

ItemsOf(id) == {i \in invoice_items : i.invoice_id = id}

MovementsOf(id) ==
    {v \in stock_movements :
        v.reference_id = id /\ v.movement_type = "out"
                            /\ v.reference_type = "sale"}

IsInvoice(r) == r # Null /\ r # Threw

Returned(p) == pc[p] = "returned"

\* the running call of p committed its transaction
Committed(p) == pc[p] \in {"refetch", "returned"} /\ error[p] = "none"

\* committed stock of m is the initial stock minus every committed sale item
Ledger(m) ==
    medicines[m] =
        InitStock - SumQty({i \in invoice_items : i.medicine_id = m})

\* ---------------------------------------------------------------- C1
\* C1: once a call of Invoice.create whose header insert, item insert, stock
\* update, movement insert or commit failed has finished, the connection
\* holds no pending write, no invoices, invoice_items or stock_movements
\* row of that attempt is committed, and every medicine's committed stock
\* is the initial stock minus the items of committed sales only.
C1_Atomicity ==
    \A p \in Procs :
        (Returned(p) /\ error[p] # "none") =>
            /\ tx[p] = EmptyTx
            /\ invoiceId[p] # 0 =>
                  /\ ~ \E r \in invoices : r.id = invoiceId[p]
                  /\ ItemsOf(invoiceId[p]) = {}
                  /\ ~ \E v \in stock_movements :
                          v.reference_id = invoiceId[p]
            /\ \A m \in Medicines : Ledger(m)

\* a sale of two items failed after its first item was fully processed,
\* was rolled back and returned null
C1_Witness ==
    \E p \in Procs :
        /\ Returned(p) /\ error[p] = "ER_STORAGE" /\ result[p] = Null
        /\ Len(items[p]) = 2 /\ done[p] = 1 /\ invoiceId[p] # 0

\* ---------------------------------------------------------------- C2
\* C2: no lost update: in every state the committed stock of a medicine is
\* the initial stock minus the quantities of all committed sale items, and
\* every call that committed has all the quantities of its item list among
\* them, however the calls interleaved.
C2_NoLostUpdate ==
    /\ \A m \in Medicines : Ledger(m)
    /\ \A p \in Procs : Committed(p) =>
          \A m \in Medicines :
              SumQty({i \in ItemsOf(invoiceId[p]) : i.medicine_id = m})
                  = CartQty(items[p], m)

\* two sales of the same medicine overlapped (the invoice inserted first got
\* the later item row) and both committed
C2_Witness ==
    /\ \A p \in Procs : Committed(p)
    /\ \E i \in invoice_items, j \in invoice_items :
          /\ i.medicine_id = j.medicine_id
          /\ i.invoice_id < j.invoice_id /\ i.id > j.id
          /\ medicines[i.medicine_id] = InitStock - i.quantity - j.quantity

\* ---------------------------------------------------------------- C3
\* C3 (as claimed): no sequence of Invoice.create calls drives a medicine's
\* quantity_in_stock below zero.
C3_StockNonNegative == \A m \in Medicines : medicines[m] >= 0

\* ---------------------------------------------------------------- C4
\* C4: no two committed invoices rows carry the same invoice_number.
C4_UniqueNumbers ==
    \A r \in invoices, o \in invoices :
        r.invoice_number = o.invoice_number => r = o

\* two sales are committed, their numbers 001 and 002
C4_Witness ==
    \E r \in invoices, o \in invoices :
        /\ r.id # o.id
        /\ ParseInt(r.invoice_number.suffix) = 1
        /\ ParseInt(o.invoice_number.suffix) = 2

\* ---------------------------------------------------------------- C5
\* C5 (as claimed): no two calls of generateInvoiceNumber return the same
\* number.
C5_GeneratedDistinct ==
    \A p \in Procs, q \in Procs :
        (p # q /\ invoiceNumber[p] # Null /\ invoiceNumber[q] # Null) =>
            invoiceNumber[p] # invoiceNumber[q]

\* ---------------------------------------------------------------- C6
\* C6 (as claimed): two sales that generated the same number (both read the
\* same last number) and met no storage fault both end up persisted, with
\* distinct numbers, because the collision is retried.
C6_CollisionRetried ==
    \A p \in Procs, q \in Procs :
        (/\ p # q /\ Returned(p) /\ Returned(q) /\ faults = 0
         /\ invoiceNumber[p] = invoiceNumber[q]) =>
            /\ IsInvoice(result[p]) /\ IsInvoice(result[q])
            /\ result[p].invoice_number # result[q].invoice_number

\* ---------------------------------------------------------------- C7
\* C7: the commit of a sale changes the committed quantity_in_stock of each
\* medicine by exactly the total quantity of that medicine over the items
\* of the sale (zero for a medicine the sale does not reference).
C7_ExactDecrement ==
    [][\A p \in Procs :
          (pc[p] = "commit" /\ pc'[p] = "refetch") =>
              \A m \in Medicines :
                  medicines'[m] = medicines[m] - CartQty(items[p], m)]_vars

\* a committed sale listed one medicine in two line items; that medicine
\* lost both quantities, the other medicine kept its stock
C7_Witness ==
    \E p \in Procs :
        /\ Committed(p) /\ Len(items[p]) = 2
        /\ items[p][1].medicine_id = items[p][2].medicine_id
        /\ \A m \in Medicines :
              medicines[m] = IF m = items[p][1].medicine_id
                             THEN InitStock - Units(items[p])
                             ELSE InitStock

\* ---------------------------------------------------------------- C8
\* C8 (as claimed): a committed invoice has exactly one out/sale movement
\* row per medicine among its items.
C8_OnePerMedicine ==
    \A r \in invoices, m \in Medicines :
        (\E i \in ItemsOf(r.id) : i.medicine_id = m) =>
            Cardinality({v \in MovementsOf(r.id) : v.medicine_id = m}) = 1

\* C8 (amended): a committed invoice has exactly one out/sale movement row
\* per line item, with the item's medicine and quantity, and every
\* movement row belongs to a committed invoice in this way.
C8_OnePerItem ==
    /\ \A v \in stock_movements :
          /\ v.movement_type = "out" /\ v.reference_type = "sale"
          /\ \E r \in invoices : r.id = v.reference_id
    /\ \A r \in invoices, m \in Medicines :
          \A n \in {i.quantity : i \in invoice_items}
                   \cup {v.quantity : v \in stock_movements} :
              Cardinality({i \in ItemsOf(r.id) :
                              i.medicine_id = m /\ i.quantity = n})
                = Cardinality({v \in MovementsOf(r.id) :
                                  v.medicine_id = m /\ v.quantity = n})

\* a committed invoice with two line items of one medicine and two
\* movement rows for it
C8_Witness ==
    \E r \in invoices, m \in Medicines :
        /\ Cardinality({i \in ItemsOf(r.id) : i.medicine_id = m}) = 2
        /\ Cardinality({v \in MovementsOf(r.id) : v.medicine_id = m}) = 2

\* ---------------------------------------------------------------- C9
\* C9 (as claimed): whenever Invoice.create returned null, nothing of that
\* call is committed.
C9_NullMeansNothing ==
    \A p \in Procs :
        (Returned(p) /\ result[p] = Null /\ invoiceId[p] # 0) =>
            /\ ~ \E r \in invoices : r.id = invoiceId[p]
            /\ ItemsOf(invoiceId[p]) = {}
            /\ ~ \E v \in stock_movements : v.reference_id = invoiceId[p]

\* --------------------------------------------------------------- C10
\* p was submitted after q had been answered, and no other request ran
\* while p did
Resubmitted(q, p) ==
    /\ q \in answered[p]
    /\ \A r \in Procs \ {p} : r \in answered[p] \/ pc[r] = "idle"

\* C10: when a payload identical to that of an answered, successful sale is
\* submitted again (no other request running, no storage fault), the second
\* call succeeds too: two invoices rows with distinct ids and distinct
\* numbers, the items and movement rows of the payload under each, and the
\* stock of every medicine decremented by twice the payload's quantity.
C10_NotIdempotent ==
    \A p \in Procs, q \in Procs :
        (/\ Resubmitted(q, p) /\ Returned(p) /\ faults = 0
         /\ items[q] = items[p] /\ IsInvoice(result[q])) =>
            /\ IsInvoice(result[p])
            /\ result[p].id # result[q].id
            /\ result[p].invoice_number # result[q].invoice_number
            /\ \E r \in invoices : r.id = result[p].id
            /\ \E r \in invoices : r.id = result[q].id
            /\ \A m \in Medicines :
                  /\ SumQty({i \in ItemsOf(result[p].id) \cup
                                    ItemsOf(result[q].id) :
                                i.medicine_id = m}) = 2 * CartQty(items[p], m)
                  /\ SumQty({v \in MovementsOf(result[p].id) \cup
                                    MovementsOf(result[q].id) :
                                v.medicine_id = m}) = 2 * CartQty(items[p], m)
                  /\ medicines[m] = InitStock - 2 * CartQty(items[p], m)

\* the same two-unit payload was sold twice in sequence
C10_Witness ==
    \E p \in Procs, q \in Procs :
        /\ Resubmitted(q, p) /\ Returned(p) /\ faults = 0
        /\ items[q] = items[p] /\ Units(items[p]) = 2
        /\ IsInvoice(result[q]) /\ IsInvoice(result[p])

\* --------------------------------------------------------------- C11
\* C11: a sale request whose items are an empty list or no list is answered
\* as rejected by a step that opens no transaction and writes no row (the
\* tables, the AUTO_INCREMENT counters and every connection's pending
\* writes are unchanged), and it stays rejected without a transaction.
C11_RejectedEarly ==
    [][\A p \in Procs :
          /\ (/\ pc[p] = "idle" /\ pc'[p] # "idle"
              /\ \/ body'[p].items.type # "array"
                 \/ Len(body'[p].items.value) = 0) =>
                /\ pc'[p] = "rejected"
                /\ UNCHANGED <<tables, autoInc, tx>>
          /\ pc[p] = "rejected" =>
                pc'[p] = "rejected" /\ tx'[p] = EmptyTx]_vars

\* a request with an empty array of items was rejected
C11_Witness ==
    \E p \in Procs :
        /\ pc[p] = "rejected" /\ body[p].items = JsonArray(<< >>)
        /\ body[p].total_amount >= 0
        /\ invoices = {} /\ tx[p] = EmptyTx

\* --------------------------------------------------------------- C12
\* C12 (as claimed): the invoice returned by a successful Invoice.create
\* lists as many items as the input list, and position k of the result has
\* the medicine_id and quantity of input item k.
C12_ItemsEcho ==
    \A p \in Procs :
        (Returned(p) /\ IsInvoice(result[p])) =>
            /\ Len(result[p].items) = Len(items[p])
            /\ \A k \in 1..Len(items[p]) :
                  /\ result[p].items[k].medicine_id = items[p][k].medicine_id
                  /\ result[p].items[k].quantity = items[p][k].quantity

\* --------------------------------------------------------------- C15
\* C15 (as claimed): no sale whose item list references a medicine without
\* a medicines row, or with is_active = 0, decrements a quantity_in_stock,
\* not even inside its transaction, and none commits an invoice.
C15_CheckedBeforeStock ==
    [][\A p \in Procs :
          (\/ pc[p] = "stock" /\ pc'[p] = "movement"
           \/ pc[p] = "commit" /\ pc'[p] = "refetch") =>
              \A k \in 1..Len(items[p]) :
                  /\ items[p][k].medicine_id \in Medicines
                  /\ is_active[items[p][k].medicine_id]]_vars

\* --------------------------------------------------------------- C16
\* C16 (as claimed): Invoice.create never throws to its caller, whichever
\* step fails.
C16_NeverThrows == \A p \in Procs : result[p] # Threw

\* --------------------------------------------------------------- C19
\* the sequence numbers of the committed invoices of a day
SequencesOf(day) ==
    {ParseInt(r.invoice_number.suffix) :
        r \in {x \in invoices : x.invoice_number.prefix = Prefix(day)}}

C20_TimeFallback ==
    [][\A p \in Procs :
          (pc[p] = "generate" /\ pc'[p] = "header" /\ faults' # faults) =>
              DOMAIN invoiceNumber'[p] = DOMAIN TimeToken(0)]_vars

\* --------------------------------------------------------------- C13
RECURSIVE SumTotalPrice(_)
\* SUM(total_price) over a set of invoice_items rows
SumTotalPrice(rows) ==
    IF rows = {} THEN 0
    ELSE LET r == CHOOSE x \in rows : TRUE
         IN  r.total_price + SumTotalPrice(rows \ {r})

\* C13 (as claimed): the total_price of the items of every committed
\* invoice add up to the invoice's total_amount.
C13_TotalIsSum ==
    \A r \in invoices : SumTotalPrice(ItemsOf(r.id)) = r.total_amount

\* --------------------------------------------------------------- C14
\* C14 (as claimed): every number generateInvoiceNumber returns is today's
\* prefix followed by a sequence of exactly three decimal digits, 001 for
\* the first invoice of a calendar day, whatever the invoices table holds.
C14_FixedWidth ==
    \A p \in Procs :
        invoiceNumber[p] # Null =>
            /\ DOMAIN invoiceNumber[p] = {"prefix", "suffix"}
            /\ Len(invoiceNumber[p].suffix) = 3
            /\ \A k \in 1..3 : invoiceNumber[p].suffix[k] \in 0..9
            /\ (/\ pc[p] = "header"
                /\ invoiceNumber[p].prefix = Prefix(today)
                /\ SequencesOf(today) = {}) =>
                  invoiceNumber[p].suffix = <<0, 0, 1>>

\* --------------------------------------------------------------- C17
\* C17 (as claimed): a handler under /admin runs only in a session whose
\* account has role admin in table users, and a handler under /pharmacist
\* only in a session whose account has role pharmacist.
C17_RoleProtected ==
    response.handler \in {"admin", "pharmacist"} =>
        users[response.account].role = response.handler

\* --------------------------------------------------------------- C18
\* C18 (as claimed): every invoice the pharmacist list or details route
\* renders for a pharmacist has the pharmacist_id of that pharmacist's
\* account.
C18_OwnInvoicesOnly ==
    (/\ response.handler = "pharmacist"
     /\ users[response.account].role = "pharmacist") =>
        \A r \in invoices :
            r.id \in response.invoices => r.pharmacist_id = response.account

\* --------------------------------------------------------------- C21
\* the order in which one call moves through its statements
StatementOrder ==
    {<<"idle", "generate">>, <<"idle", "returned">>, <<"idle", "rejected">>,
     <<"generate", "header">>, <<"header", "item">>, <<"item", "stock">>,
     <<"stock", "movement">>, <<"movement", "item">>,
     <<"movement", "commit">>, <<"commit", "refetch">>,
     <<"refetch", "returned">>, <<"rollback", "returned">>}
        \cup {<<at, "rollback">> :
                 at \in {"header", "item", "stock", "movement", "commit"}}

\* C21: a call gets its number, then inserts the header, then takes the
\* items in the order of the list; item k gets its invoice_items row when
\* the k-1 items before it have their row, stock update and movement row,
\* then its stock update (of its medicine only), then its movement row;
\* the commit comes only when every item has all three.
C21_StatementOrder ==
    [][\A p \in Procs :
          LET k == done[p] + 1
              rows == tx[p].invoice_items
              moves == tx[p].stock_movements
          IN  /\ pc'[p] # pc[p] => <<pc[p], pc'[p]>> \in StatementOrder
              /\ (pc[p] = "header" /\ pc'[p] = "item") =>
                    /\ invoiceNumber[p] # Null /\ done[p] = 0
                    /\ Cardinality(tx'[p].invoices) = 1
              /\ (pc[p] = "item" /\ pc'[p] = "stock") =>
                    /\ Cardinality(rows) = k - 1
                    /\ Cardinality(moves) = k - 1
                    /\ \E r \in tx'[p].invoice_items :
                          /\ tx'[p].invoice_items = rows \cup {r}
                          /\ \A o \in rows : o.id < r.id
                          /\ r.medicine_id = items[p][k].medicine_id
                          /\ r.quantity = items[p][k].quantity
              /\ (pc[p] = "stock" /\ pc'[p] = "movement") =>
                    /\ Cardinality(rows) = k
                    /\ Cardinality(moves) = k - 1
                    /\ items[p][k].medicine_id \in DOMAIN tx'[p].medicines
                    /\ \A m \in DOMAIN tx[p].medicines :
                          m # items[p][k].medicine_id =>
                              tx'[p].medicines[m] = tx[p].medicines[m]
              /\ (pc[p] = "movement" /\ pc'[p] \in {"item", "commit"}) =>
                    /\ Cardinality(rows) = k
                    /\ \E v \in tx'[p].stock_movements :
                          /\ tx'[p].stock_movements = moves \cup {v}
                          /\ v \notin moves
                          /\ v.medicine_id = items[p][k].medicine_id
                          /\ v.quantity = items[p][k].quantity
                    /\ done'[p] = k
                    /\ pc'[p] = "commit" <=> k = Len(items[p])
              /\ (pc[p] = "commit" /\ pc'[p] = "refetch") =>
                    /\ done[p] = Len(items[p])
                    /\ Cardinality(rows) = Len(items[p])
                    /\ Cardinality(moves) = Len(items[p])]_vars

\* a sale of two different medicines is committed, the item rows in the
\* order of the list
C21_Witness ==
    \E p \in Procs :
        /\ Committed(p) /\ Len(items[p]) = 2
        /\ items[p][1].medicine_id # items[p][2].medicine_id
        /\ LET rows == SortById(ItemsOf(invoiceId[p]))
           IN  /\ Len(rows) = 2
               /\ rows[1].medicine_id = items[p][1].medicine_id
               /\ rows[2].medicine_id = items[p][2].medicine_id

C23_MovementLedger ==
    [][/\ stock_movements \subseteq stock_movements'
       /\ \A m \in Medicines :
             /\ medicines'[m] =
                   InitStock
                     - SumQty({v \in stock_movements' :
                                  /\ v.medicine_id = m
                                  /\ v.movement_type = "out"})
             /\ medicines'[m] # medicines[m] =>
                   /\ \E p \in Procs :
                         pc[p] = "commit" /\ pc'[p] = "refetch"
                   /\ \E v \in stock_movements' \ stock_movements :
                         v.medicine_id = m]_vars

\* --------------------------------------------------------------- C25
\* C25: the unit_price of an invoice_items row is the selling_price the
\* medicine has when the row is inserted, and a later change of a
\* selling_price changes no invoice_items row, committed or pending.
C25_PriceSnapshot ==
    [][/\ \A p \in Procs :
             \A r \in tx'[p].invoice_items \ tx[p].invoice_items :
                 r.unit_price = catalog[r.medicine_id].selling_price
       /\ catalog' # catalog =>
             /\ invoice_items' = invoice_items
             /\ \A p \in Procs :
                   tx'[p].invoice_items = tx[p].invoice_items]_vars

\* --------------------------------------------------------------- C24
\* C24: every committed invoice_items row has a quantity of at least one,
\* and the commit of a sale leaves no medicine with more stock than before.
C24_PositiveQuantity ==
    [][/\ \A i \in invoice_items' : i.quantity >= 1
       /\ (\E p \in Procs : pc[p] = "commit" /\ pc'[p] = "refetch") =>
             \A m \in Medicines : medicines'[m] <= medicines[m]]_vars

\* --------------------------------------------------------------- C26
\* C26: a call of Invoice.create that beginTransaction gave a connection
\* to, and that has returned or thrown, has released that connection
\* exactly once.
C26_ConnectionReleased ==
    \A p \in Procs :
        /\ connection[p].released <= 1
        /\ (Returned(p) /\ connection[p].taken /\ error[p] # "ER_CONN") =>
              connection[p].released = 1

\* --------------------------------------------------------------- C27
\* C27: whenever the inventory page is computed, for every active
\* medicine: is_low_stock says quantity_in_stock <= min_stock_level,
\* is_expired says the expiry date is set and lies before today's date,
\* and the two flags agree with membership in the lists of getLowStock()
\* and getExpired().
C27_AlertsAgree ==
    [][classified' # classified =>
          \A m \in {k \in Medicines : is_active[k]} :
              /\ m \in classified'.is_low_stock
                    <=> medicines[m] <= catalog[m].min_stock_level
              /\ m \in classified'.is_expired
                    <=> /\ catalog[m].expiry_date # NoDate
                        /\ catalog[m].expiry_date < today'
              /\ m \in classified'.is_low_stock
                    <=> m \in classified'.lowStockMedicines
              /\ m \in classified'.is_expired
                    <=> m \in classified'.expiredMedicines]_vars

\* --------------------------------------------------------------- C28
\* C28: the date inside the number of every committed invoice that has a
\* date-sequence number is the invoice's own invoice_date.
C28_DateScoped ==
    \A r \in invoices :
        DOMAIN r.invoice_number = {"prefix", "suffix"} =>
            r.invoice_number.prefix = Prefix(r.invoice_date)

\* --------------------------------------------------------------- C29
\* C29: a sale request is handed to Invoice.create with the users id of
\* the account that logged in to the session, and the invoices row and the
\* stock_movements rows the call writes carry that id, whatever the body
\* or earlier requests of the session held.
C29_Attribution ==
    [][\A p \in Procs :
          /\ (pc[p] = "idle" /\ pc'[p] \in {"generate", "returned"}) =>
                pharmacist'[p] = session.userId
          /\ \A r \in tx'[p].invoices : r.pharmacist_id = pharmacist'[p]
          /\ \A v \in tx'[p].stock_movements :
                v.created_by = pharmacist'[p]]_vars

\* --------------------------------------------------------------- C30
\* C30: no sale requested after the deactivation of the pharmacist it runs
\* as is committed; a session is opened for active accounts only; and a
\* deactivated account is never active again.
C30_Deactivated ==
    [][/\ \A p \in Procs :
             (pc[p] = "commit" /\ pc'[p] = "refetch") =>
                 users[pharmacist[p]].is_active
       /\ (session'.userId # session.userId /\ session'.userId # 0) =>
             users[session'.userId].is_active
       /\ \A u \in Users :
             ~users[u].is_active => ~users'[u].is_active]_vars

====
